---------------------------- MODULE Spec2Model ----------------------------
(***************************************************************************)
(* Model of src/memdev.rs: the Game Boy memory devices (Addr, ReadOnly,    *)
(* NullRom, BiosRom, Cartridge, Mbc1Rom, [u8; N], MemMappedIo) and the     *)
(* top-level address decoder GbMmu.                                        *)
(*                                                                         *)
(* A byte array [u8; N] is kept sparsely: `size` is N, `fill` names the    *)
(* contents the array was constructed with, and `cells` holds exactly the  *)
(* indices whose byte differs from the construction-time byte.             *)
(* A panic (assert!/panic!/failed index) is the result record with         *)
(* ok = FALSE; the device is then left as it was.                          *)
(***************************************************************************)
EXTENDS Integers, FiniteSets

VARIABLES
    bios,       \* GbMmu.bios : BiosRom(ReadOnly<[u8; 0x100]>)
    cart,       \* GbMmu.cart : Cartridge
    vram,       \* GbMmu.vram : [u8; 0x2000]
    wram,       \* GbMmu.wram : [u8; 0x2000]
    oam,        \* GbMmu.oam  : [u8; 160]
    io,         \* GbMmu.io   : MemMappedIo
    zram,       \* GbMmu.zram : [u8; 127]
    panicked,   \* TRUE once an access has hit a fatal assertion
    wroteFF50,  \* history: a value with bit 0 set has been written to 0xFF50
    call        \* the call of a free-standing function or of a single device
                \* that is being followed: its input, its result, its history

vars == <<bios, cart, vram, wram, oam, io, zram, panicked, wroteFF50, call>>

-----------------------------------------------------------------------------
(* Bounds of the model.                                                    *)

\* At most this many bytes of plain storage (video RAM, working RAM, sprite
\* table, high RAM, cartridge RAM) differ from their construction-time value.
MaxDirty == 1

-----------------------------------------------------------------------------
(* u8 arithmetic.                                                          *)

Max(a, b) == IF a >= b THEN a ELSE b

\* a | b on the low n bits.
RECURSIVE BitOr(_, _, _)
BitOr(a, b, n) ==
    IF n = 0 THEN 0
    ELSE (IF a % 2 = 1 \/ b % 2 = 1 THEN 1 ELSE 0)
         + 2 * BitOr(a \div 2, b \div 2, n - 1)

\* (x << k) as u8: the bits shifted out of the byte are lost.
Shl8(x, k) == (x * (2 ^ k)) % 256

-----------------------------------------------------------------------------
(* Addr.                                                                   *)

\* impl From<u16> for Addr
AddrFrom(raw) == [raw |-> raw, relative |-> raw]

\* Addr::offset_by: asserts shift <= relative.
OffsetOk(addr, shift) == shift <= addr.relative

\* Addr::offset_by that moves the raw address along with the relative one.
OffsetBy_ShiftsRaw(addr, shift) ==
    [raw |-> addr.raw - shift, relative |-> addr.relative - shift]

OffsetBy(addr, shift) == [raw |-> addr.raw, relative |-> addr.relative - shift]

\* Addr::offset
AddrOffset(addr) == addr.raw - addr.relative

-----------------------------------------------------------------------------
(* Results of an access.                                                   *)

RdOk(v) == [ok |-> TRUE, val |-> v]

RdPanic == [ok |-> FALSE, val |-> 0]

WrOk(d) == [ok |-> TRUE, dev |-> d]

WrPanic(d) == [ok |-> FALSE, dev |-> d]

-----------------------------------------------------------------------------
(* Construction-time contents.                                             *)

\* The 256-byte bios image handed to BiosRom::new.
BiosData(i) == (255 - i) % 256

\* Byte i of ROM bank b of the cartridge image (distinct banks differ at
\* every offset, and bank 0 differs from the bios on 0..0xFF).
RomData(b, i) == (b + 131 * i) % 256

FillByte(fill, i) ==
    CASE fill.kind = "zero" -> 0
      [] fill.kind = "bios" -> BiosData(i)
      [] fill.kind = "rom"  -> RomData(fill.bank, i)

NoCells == [i \in {} |-> 0]

ZeroArray(n) == [size |-> n, fill |-> [kind |-> "zero"], cells |-> NoCells]

-----------------------------------------------------------------------------
(* impl MemDevice for [u8; N]                                              *)

ArrayGet(arr, i) == IF i \in DOMAIN arr.cells THEN arr.cells[i] ELSE FillByte(arr.fill, i)

ArraySet(arr, i, value) ==
    LET keep == IF value = FillByte(arr.fill, i)
                THEN (DOMAIN arr.cells) \ {i}
                ELSE (DOMAIN arr.cells) \cup {i}
    IN  [arr EXCEPT !.cells = [j \in keep |-> IF j = i THEN value ELSE arr.cells[j]]]

\* [u8; N]::read that accepts the index N, one past the last byte.
ArrayRead_Inclusive(arr, addr) ==
    IF addr.relative <= arr.size THEN RdOk(ArrayGet(arr, addr.relative)) ELSE RdPanic

ArrayRead(arr, addr) ==
    IF addr.relative < arr.size THEN RdOk(ArrayGet(arr, addr.relative)) ELSE RdPanic

\* [u8; N]::write that indexes with the low byte of the relative address.
ArrayWrite_LowByte(arr, addr, value) ==
    IF addr.relative < arr.size THEN WrOk(ArraySet(arr, addr.relative % 256, value))
    ELSE WrPanic(arr)

ArrayWrite(arr, addr, value) ==
    IF addr.relative < arr.size THEN WrOk(ArraySet(arr, addr.relative, value))
    ELSE WrPanic(arr)

-----------------------------------------------------------------------------
(* ReadOnly<M>, NullRom<N>, BiosRom                                        *)

ReadOnlyRead(inner, addr) == ArrayRead(inner, addr)

\* ReadOnly::write that forwards the write to the wrapped device.
ReadOnlyWrite_Through(inner, addr, value) == ArrayWrite(inner, addr, value)

\* The write reads the address (range validation) and drops the value.
ReadOnlyWrite(inner, addr, value) ==
    IF ArrayRead(inner, addr).ok THEN WrOk(inner) ELSE WrPanic(inner)

NullRomRead(n, addr) == IF addr.relative < n THEN RdOk(0) ELSE RdPanic

NullRomWriteOk(n, addr) == addr.relative < n

BiosRomNew == [size |-> \h100, fill |-> [kind |-> "bios"], cells |-> NoCells]

BiosRomRead(b, addr) == ReadOnlyRead(b, addr)

BiosRomWrite(b, addr, value) == ReadOnlyWrite(b, addr, value)

\* A slice &[u8] is a function on 0..len-1.
SliceLen(data) == Cardinality(DOMAIN data)

\* arr.copy_from_slice(data): panics unless the two lengths are equal.
CopyFromSlice(arr, data) ==
    IF SliceLen(data) = arr.size
    THEN WrOk([arr EXCEPT !.cells =
                   [i \in {j \in DOMAIN data : data[j] # FillByte(arr.fill, j)} |-> data[i]]])
    ELSE WrPanic(arr)

\* Results of BiosRom::try_from: Ok(BiosRom), Err(BiosSizeError(n)), or a panic.
TryOk(rom) == [kind |-> "Ok", rom |-> rom]

TryErr(n) == [kind |-> "Err", err |-> n]

TryPanic == [kind |-> "Panic"]

\* BiosRom::try_from whose error reports the expected length instead of the
\* length of the slice.
BiosRomTryFrom_ExpectedLen(data) ==
    IF SliceLen(data) # \h100
    THEN TryErr(\h100)
    ELSE LET r == CopyFromSlice(ZeroArray(\h100), data)
         IN  IF r.ok THEN TryOk(r.dev) ELSE TryPanic

\* impl TryFrom<&[u8]> for BiosRom
BiosRomTryFrom(data) ==
    IF SliceLen(data) # \h100
    THEN TryErr(SliceLen(data))
    ELSE LET r == CopyFromSlice(ZeroArray(\h100), data)
         IN  IF r.ok THEN TryOk(r.dev) ELSE TryPanic

\* BiosRom::try_from_slice
BiosRomTryFromSlice(data) == BiosRomTryFrom(data)

-----------------------------------------------------------------------------
(* Mbc1Rom                                                                 *)

\* Mbc1Rom.rom_banks has 128 banks, Mbc1Rom.ram_banks has 4.
NumRomBanks == 128

NumRamBanks == 4

\* ROM bank b as the cartridge image holds it.
RomBankNew(b) == [size |-> \h4000, fill |-> [kind |-> "rom", bank |-> b], cells |-> NoCells]

\* c.rom_banks[b]. The field rom_banks keeps only the banks that differ from
\* the cartridge image; every other bank is the image's.
RomBank(c, b) == IF b \in DOMAIN c.rom_banks THEN c.rom_banks[b] ELSE RomBankNew(b)

\* struct Mbc1Rom: the 128 ROM banks of the image, 4 zeroed RAM banks, the
\* has_ram flag and the four registers.
Mbc1Rom(hasRam, ramEnable, romBank, bankSet, ramMode) ==
    [kind       |-> "Mbc1",
     rom_banks  |-> [b \in {} |-> RomBankNew(b)],
     ram_banks  |-> [k \in 0..(NumRamBanks - 1) |-> ZeroArray(\h2000)],
     has_ram    |-> hasRam,
     ram_enable |-> ramEnable,
     rom_bank   |-> romBank,
     bank_set   |-> bankSet,
     ram_mode   |-> ramMode]

\* The cartridges a decoder is constructed with. The registers hold what the
\* fields are documented to hold: rom_bank the low-order 5 bits of a bank
\* that is never 0, bank_set 2 bits, and without RAM neither RAM enabled nor
\* RAM mode.
Mbc1Roms ==
    {Mbc1Rom(hasRam, ramEnable, romBank, bankSet, ramMode) :
        hasRam \in BOOLEAN, ramEnable \in BOOLEAN, romBank \in {31},
        bankSet \in 0..3, ramMode \in BOOLEAN}

\* Mbc1Rom::rom_bank with the bank set shifted one bit too far.
Mbc1RomBankIdx_Shl6(c) ==
    LET low_order  == c.rom_bank
        high_order == IF c.ram_mode THEN 0 ELSE Shl8(c.bank_set, 6)
    IN  BitOr(high_order, low_order, 8)

\* Mbc1Rom::rom_bank that uses bank_set in RAM mode too.
Mbc1RomBankIdx_IgnoresMode(c) ==
    LET low_order  == c.rom_bank
        high_order == Shl8(c.bank_set, 5)
    IN  BitOr(high_order, low_order, 8)

\* Mbc1Rom::rom_bank: index of the currently selected ROM bank.
Mbc1RomBankIdx(c) ==
    LET low_order  == c.rom_bank
        high_order == IF c.ram_mode THEN 0 ELSE Shl8(c.bank_set, 5)
    IN  BitOr(high_order, low_order, 8)

\* Mbc1Rom::ram_bank: index of the RAM bank a read selects.
Mbc1RamBankIdx(c) == IF c.ram_mode THEN c.bank_set ELSE 0

\* Mbc1Rom::ram_bank_mut that uses bank_set in ROM mode too.
Mbc1RamBankMutIdx_IgnoresMode(c) == c.bank_set

\* Mbc1Rom::ram_bank_mut: index of the RAM bank a write selects.
Mbc1RamBankMutIdx(c) == IF c.ram_mode THEN c.bank_set ELSE 0

\* The register values Mbc1Rom::write computes from the written value.
Mbc1RamEnable_NoHasRam(c, value) == (value % 16) = \hA

Mbc1RamEnable_WholeByte(c, value) == c.has_ram /\ value = \hA

Mbc1RamEnable(c, value) == c.has_ram /\ (value % 16) = \hA

Mbc1RomBankSel_NoClamp(value) == value % 32

Mbc1RomBankSel(value) == Max(value % 32, 1)

Mbc1BankSet(value) == value % 4

\* ram_mode that, once set, is not cleared by a later write of an even value.
Mbc1RamMode_Sticky(c, value) == c.has_ram /\ (c.ram_mode \/ (value % 2) # 0)

Mbc1RamMode(c, value) == c.has_ram /\ (value % 2) # 0

Mbc1Read(c, addr) ==
    CASE addr.relative \in 0..\h3fff ->
            ReadOnlyRead(RomBank(c, 0), addr)
      [] addr.relative \in \h4000..\h7fff ->
            IF Mbc1RomBankIdx(c) < NumRomBanks /\ OffsetOk(addr, \h4000)
            THEN ReadOnlyRead(RomBank(c, Mbc1RomBankIdx(c)), OffsetBy(addr, \h4000))
            ELSE RdPanic
      [] addr.relative \in \h8000..\h9fff ->
            IF c.ram_enable
            THEN IF Mbc1RamBankIdx(c) < NumRamBanks /\ OffsetOk(addr, \h8000)
                 THEN ArrayRead(c.ram_banks[Mbc1RamBankIdx(c)], OffsetBy(addr, \h8000))
                 ELSE RdPanic
            ELSE RdOk(0)
      [] OTHER -> RdPanic

\* Mbc1Rom::write on a cartridge whose bank 0 is not wrapped in ReadOnly: a
\* write to 0x0000..0x3FFF sets the register and is also stored in the bank.
Mbc1Write_RomWritable(c, addr, value) ==
    LET stored == [b \in (DOMAIN c.rom_banks) \cup {0} |->
                      IF b = 0 THEN ArraySet(RomBank(c, 0), addr.relative, value)
                      ELSE c.rom_banks[b]]
    IN  CASE addr.relative \in 0..\h1fff ->
                WrOk([c EXCEPT !.ram_enable = Mbc1RamEnable(c, value), !.rom_banks = stored])
          [] addr.relative \in \h2000..\h3fff ->
                WrOk([c EXCEPT !.rom_bank = Mbc1RomBankSel(value), !.rom_banks = stored])
          [] addr.relative \in \h4000..\h5fff ->
                WrOk([c EXCEPT !.bank_set = Mbc1BankSet(value)])
          [] addr.relative \in \h6000..\h7fff ->
                WrOk([c EXCEPT !.ram_mode = Mbc1RamMode(c, value)])
          [] addr.relative \in \h8000..\h9fff ->
                IF c.has_ram /\ c.ram_enable
                THEN IF Mbc1RamBankMutIdx(c) < NumRamBanks /\ OffsetOk(addr, \h8000)
                     THEN LET k == Mbc1RamBankMutIdx(c)
                              r == ArrayWrite(c.ram_banks[k], OffsetBy(addr, \h8000), value)
                          IN  [ok |-> r.ok, dev |-> [c EXCEPT !.ram_banks[k] = r.dev]]
                     ELSE WrPanic(c)
                ELSE WrOk(c)
          [] OTHER -> WrPanic(c)

\* Mbc1Rom::write that zeroes the cartridge RAM whenever a write to
\* 0x0000..0x1FFF leaves RAM disabled.
Mbc1Write_DisableClears(c, addr, value) ==
    CASE addr.relative \in 0..\h1fff ->
            WrOk([c EXCEPT !.ram_enable = Mbc1RamEnable(c, value),
                           !.ram_banks = IF Mbc1RamEnable(c, value) THEN @
                                         ELSE [k \in 0..(NumRamBanks - 1) |-> ZeroArray(\h2000)]])
      [] addr.relative \in \h2000..\h3fff ->
            WrOk([c EXCEPT !.rom_bank = Mbc1RomBankSel(value)])
      [] addr.relative \in \h4000..\h5fff ->
            WrOk([c EXCEPT !.bank_set = Mbc1BankSet(value)])
      [] addr.relative \in \h6000..\h7fff ->
            WrOk([c EXCEPT !.ram_mode = Mbc1RamMode(c, value)])
      [] addr.relative \in \h8000..\h9fff ->
            IF c.has_ram /\ c.ram_enable
            THEN IF Mbc1RamBankMutIdx(c) < NumRamBanks /\ OffsetOk(addr, \h8000)
                 THEN LET k == Mbc1RamBankMutIdx(c)
                          r == ArrayWrite(c.ram_banks[k], OffsetBy(addr, \h8000), value)
                      IN  [ok |-> r.ok, dev |-> [c EXCEPT !.ram_banks[k] = r.dev]]
                 ELSE WrPanic(c)
            ELSE WrOk(c)
      [] OTHER -> WrPanic(c)

Mbc1Write(c, addr, value) ==
    CASE addr.relative \in 0..\h1fff ->
            WrOk([c EXCEPT !.ram_enable = Mbc1RamEnable(c, value)])
      [] addr.relative \in \h2000..\h3fff ->
            WrOk([c EXCEPT !.rom_bank = Mbc1RomBankSel(value)])
      [] addr.relative \in \h4000..\h5fff ->
            WrOk([c EXCEPT !.bank_set = Mbc1BankSet(value)])
      [] addr.relative \in \h6000..\h7fff ->
            WrOk([c EXCEPT !.ram_mode = Mbc1RamMode(c, value)])
      [] addr.relative \in \h8000..\h9fff ->
            IF c.has_ram /\ c.ram_enable
            THEN IF Mbc1RamBankMutIdx(c) < NumRamBanks /\ OffsetOk(addr, \h8000)
                 THEN LET k == Mbc1RamBankMutIdx(c)
                          r == ArrayWrite(c.ram_banks[k], OffsetBy(addr, \h8000), value)
                      IN  [ok |-> r.ok, dev |-> [c EXCEPT !.ram_banks[k] = r.dev]]
                 ELSE WrPanic(c)
            ELSE WrOk(c)
      [] OTHER -> WrPanic(c)

-----------------------------------------------------------------------------
(* Cartridge                                                               *)

CartridgeNone == [kind |-> "None"]

\* Cartridge::read whose empty slot spans only the ROM window (NullRom<0x8000>).
CartridgeRead_RomSizedNull(c, addr) ==
    IF c.kind = "None" THEN NullRomRead(\h8000, addr) ELSE Mbc1Read(c, addr)

CartridgeRead(c, addr) ==
    IF c.kind = "None" THEN NullRomRead(\h10000, addr) ELSE Mbc1Read(c, addr)

CartridgeWrite(c, addr, value) ==
    IF c.kind = "None"
    THEN (IF NullRomWriteOk(\h10000, addr) THEN WrOk(c) ELSE WrPanic(c))
    ELSE Mbc1Write(c, addr, value)

-----------------------------------------------------------------------------
(* MemMappedIo                                                             *)

MemMappedIoNew == [bios_enabled |-> TRUE]

MemMappedIoRead(m, addr) ==
    CASE addr.relative \in 0..\h4f      -> RdOk(\hff)
      [] addr.relative = \h50           -> RdOk(IF m.bios_enabled THEN 1 ELSE 0)
      [] addr.relative \in \h51..\h7f   -> RdOk(\hff)
      [] OTHER                          -> RdPanic

\* MemMappedIo::write that clears the latch whatever value is written.
MemMappedIoWrite_AnyValue(m, addr, value) ==
    CASE addr.relative \in 0..\h4f      -> WrOk(m)
      [] addr.relative = \h50           -> WrOk([m EXCEPT !.bios_enabled = FALSE])
      [] addr.relative \in \h51..\h7f   -> WrOk(m)
      [] OTHER                          -> WrPanic(m)

\* MemMappedIo::write that stores bit 0 of the value, so the latch can be set again.
MemMappedIoWrite_Stores(m, addr, value) ==
    CASE addr.relative \in 0..\h4f      -> WrOk(m)
      [] addr.relative = \h50           -> WrOk([m EXCEPT !.bios_enabled = (value % 2 = 0)])
      [] addr.relative \in \h51..\h7f   -> WrOk(m)
      [] OTHER                          -> WrPanic(m)

MemMappedIoWrite(m, addr, value) ==
    CASE addr.relative \in 0..\h4f      -> WrOk(m)
      [] addr.relative = \h50           ->
            WrOk(IF value % 2 # 0 THEN [m EXCEPT !.bios_enabled = FALSE] ELSE m)
      [] addr.relative \in \h51..\h7f   -> WrOk(m)
      [] OTHER                          -> WrPanic(m)

-----------------------------------------------------------------------------
(* GbMmu                                                                   *)

\* GbMmu::new
GbMmuNew(b, c) ==
    [bios |-> b, cart |-> c, vram |-> ZeroArray(\h2000), wram |-> ZeroArray(\h2000),
     oam |-> ZeroArray(160), io |-> MemMappedIoNew, zram |-> ZeroArray(127)]

\* GbMmu::read that re-offsets the cartridge RAM window 0xA000..0xBFFF by its
\* own base 0xA000, as it does for every other window.
GbMmuRead_CartRamFromZero(m, addr) ==
    IF addr.relative # addr.raw THEN RdPanic
    ELSE LET a == addr.relative
             RdVram(x) == ArrayRead(m.vram, x)
             RdCart(x) == CartridgeRead(m.cart, x)
             RdWram(x) == ArrayRead(m.wram, x)
             RdOam(x)  == ArrayRead(m.oam, x)
             RdIo(x)   == MemMappedIoRead(m.io, x)
             RdZram(x) == ArrayRead(m.zram, x)
             RdAt(shift, addr2, Rd(_)) ==
                 IF OffsetOk(addr2, shift) THEN Rd(OffsetBy(addr2, shift)) ELSE RdPanic
         IN  CASE a \in 0..\hff /\ m.io.bios_enabled -> BiosRomRead(m.bios, addr)
               [] a \in 0..\h7fff /\ ~(a \in 0..\hff /\ m.io.bios_enabled) ->
                                           CartridgeRead(m.cart, addr)
               [] a \in \h8000..\h9fff -> RdAt(\h8000, addr, RdVram)
               [] a \in \ha000..\hbfff -> RdAt(\ha000, addr, RdCart)
               [] a \in \hc000..\hdfff -> RdAt(\hc000, addr, RdWram)
               [] a \in \he000..\hfdff -> RdAt(\he000, addr, RdWram)
               [] a \in \hfe00..\hfe9f -> RdAt(\hfe00, addr, RdOam)
               [] a \in \hfea0..\hfeff -> RdOk(0)
               [] a \in \hff00..\hff7f -> RdAt(\hff00, addr, RdIo)
               [] a \in \hff80..\hfffe -> RdAt(\hff80, addr, RdZram)
               [] a = \hffff           -> RdOk(0)

GbMmuRead(m, addr) ==
    IF addr.relative # addr.raw THEN RdPanic
    ELSE LET a == addr.relative
             RdVram(x) == ArrayRead(m.vram, x)
             RdCart(x) == CartridgeRead(m.cart, x)
             RdWram(x) == ArrayRead(m.wram, x)
             RdOam(x)  == ArrayRead(m.oam, x)
             RdIo(x)   == MemMappedIoRead(m.io, x)
             RdZram(x) == ArrayRead(m.zram, x)
             RdAt(shift, addr2, Rd(_)) ==
                 IF OffsetOk(addr2, shift) THEN Rd(OffsetBy(addr2, shift)) ELSE RdPanic
         IN  CASE a \in 0..\hff /\ m.io.bios_enabled -> BiosRomRead(m.bios, addr)
               [] a \in 0..\h7fff /\ ~(a \in 0..\hff /\ m.io.bios_enabled) ->
                                           CartridgeRead(m.cart, addr)
               [] a \in \h8000..\h9fff -> RdAt(\h8000, addr, RdVram)
               [] a \in \ha000..\hbfff -> RdAt(\h2000, addr, RdCart)
               [] a \in \hc000..\hdfff -> RdAt(\hc000, addr, RdWram)
               [] a \in \he000..\hfdff -> RdAt(\he000, addr, RdWram)
               [] a \in \hfe00..\hfe9f -> RdAt(\hfe00, addr, RdOam)
               [] a \in \hfea0..\hfeff -> RdOk(0)
               [] a \in \hff00..\hff7f -> RdAt(\hff00, addr, RdIo)
               [] a \in \hff80..\hfffe -> RdAt(\hff80, addr, RdZram)
               [] a = \hffff           -> RdOk(0)

\* The decoder with field f replaced by the device a sub-write returned.
WrInto(m, f, r) == [ok |-> r.ok, dev |-> [m EXCEPT ![f] = r.dev]]

\* GbMmu::write that treats the mirror window 0xE000..0xFDFF as unmapped.
GbMmuWrite_NoMirror(m, addr, value) ==
    IF addr.relative # addr.raw THEN WrPanic(m)
    ELSE LET a == addr.relative
             At(shift, f, Wr(_, _, _)) ==
                 IF OffsetOk(addr, shift)
                 THEN WrInto(m, f, Wr(m[f], OffsetBy(addr, shift), value))
                 ELSE WrPanic(m)
         IN  CASE a \in 0..\hff /\ m.io.bios_enabled ->
                       WrInto(m, "bios", BiosRomWrite(m.bios, addr, value))
               [] a \in 0..\h7fff /\ ~(a \in 0..\hff /\ m.io.bios_enabled) ->
                       WrInto(m, "cart", CartridgeWrite(m.cart, addr, value))
               [] a \in \h8000..\h9fff -> At(\h8000, "vram", ArrayWrite)
               [] a \in \ha000..\hbfff -> At(\h2000, "cart", CartridgeWrite)
               [] a \in \hc000..\hdfff -> At(\hc000, "wram", ArrayWrite)
               [] a \in \he000..\hfdff -> WrOk(m)
               [] a \in \hfe00..\hfe9f -> At(\hfe00, "oam", ArrayWrite)
               [] a \in \hfea0..\hfeff -> WrOk(m)
               [] a \in \hff00..\hff7f -> At(\hff00, "io", MemMappedIoWrite)
               [] a \in \hff80..\hfffe -> At(\hff80, "zram", ArrayWrite)
               [] a = \hffff           -> WrOk(m)

\* GbMmu::write that ignores the bios latch: 0x0000..0x7FFF always goes to the
\* cartridge.
GbMmuWrite_NoBiosWindow(m, addr, value) ==
    IF addr.relative # addr.raw THEN WrPanic(m)
    ELSE LET a == addr.relative
             At(shift, f, Wr(_, _, _)) ==
                 IF OffsetOk(addr, shift)
                 THEN WrInto(m, f, Wr(m[f], OffsetBy(addr, shift), value))
                 ELSE WrPanic(m)
         IN  CASE a \in 0..\h7fff ->
                       WrInto(m, "cart", CartridgeWrite(m.cart, addr, value))
               [] a \in \h8000..\h9fff -> At(\h8000, "vram", ArrayWrite)
               [] a \in \ha000..\hbfff -> At(\h2000, "cart", CartridgeWrite)
               [] a \in \hc000..\hdfff -> At(\hc000, "wram", ArrayWrite)
               [] a \in \he000..\hfdff -> At(\he000, "wram", ArrayWrite)
               [] a \in \hfe00..\hfe9f -> At(\hfe00, "oam", ArrayWrite)
               [] a \in \hfea0..\hfeff -> WrOk(m)
               [] a \in \hff00..\hff7f -> At(\hff00, "io", MemMappedIoWrite)
               [] a \in \hff80..\hfffe -> At(\hff80, "zram", ArrayWrite)
               [] a = \hffff           -> WrOk(m)

GbMmuWrite(m, addr, value) ==
    IF addr.relative # addr.raw THEN WrPanic(m)
    ELSE LET a == addr.relative
             At(shift, f, Wr(_, _, _)) ==
                 IF OffsetOk(addr, shift)
                 THEN WrInto(m, f, Wr(m[f], OffsetBy(addr, shift), value))
                 ELSE WrPanic(m)
         IN  CASE a \in 0..\hff /\ m.io.bios_enabled ->
                       WrInto(m, "bios", BiosRomWrite(m.bios, addr, value))
               [] a \in 0..\h7fff /\ ~(a \in 0..\hff /\ m.io.bios_enabled) ->
                       WrInto(m, "cart", CartridgeWrite(m.cart, addr, value))
               [] a \in \h8000..\h9fff -> At(\h8000, "vram", ArrayWrite)
               [] a \in \ha000..\hbfff -> At(\h2000, "cart", CartridgeWrite)
               [] a \in \hc000..\hdfff -> At(\hc000, "wram", ArrayWrite)
               [] a \in \he000..\hfdff -> At(\he000, "wram", ArrayWrite)
               [] a \in \hfe00..\hfe9f -> At(\hfe00, "oam", ArrayWrite)
               [] a \in \hfea0..\hfeff -> WrOk(m)
               [] a \in \hff00..\hff7f -> At(\hff00, "io", MemMappedIoWrite)
               [] a \in \hff80..\hfffe -> At(\hff80, "zram", ArrayWrite)
               [] a = \hffff           -> WrOk(m)

-----------------------------------------------------------------------------
(* The machine: one decoder, driven by the CPU's reads and writes.         *)

\* Raw addresses the CPU writes control values to: the cartridge's ROM and
\* register ranges, the I/O block and the unmapped ranges (first and last
\* address of every range of the dispatch tables).
ControlAddrs ==
    {\h0000, \h00ff, \h0100, \h1fff, \h2000, \h3fff, \h4000, \h5fff, \h6000, \h7fff,
     \hfea0, \hfeff, \hff00, \hff4f, \hff50, \hff51, \hff7f, \hffff}

\* Raw addresses of plain storage that the CPU writes data to: video RAM,
\* cartridge RAM, working RAM and its mirror, sprite table, high RAM.
StorageAddrs ==
    {\h8000, \h9fff, \ha000, \hc000, \hc010, \hddff, \hdfff,
     \he000, \he010, \hfdff, \hfe00, \hfe9f, \hff80, \hfffe}

\* The first and the last address of every range of the decoder's and the
\* cartridge's dispatch tables.
RawAddrs == ControlAddrs \cup StorageAddrs \cup {\hbfff}

\* Values written to control addresses and to storage addresses.
ControlBytes == {\h00, \h01, \h02, \h03, \h0a, \h20, \h2a}

DataBytes == {\h00, \h5a}

Bytes == ControlBytes \cup DataBytes

\* The decoder as one value.
Mmu ==
    [bios |-> bios, cart |-> cart, vram |-> vram, wram |-> wram, oam |-> oam,
     io |-> io, zram |-> zram]

\* Number of storage bytes that differ from their construction-time value.
Dirty(m) ==
    Cardinality(DOMAIN m.vram.cells) + Cardinality(DOMAIN m.wram.cells)
    + Cardinality(DOMAIN m.oam.cells) + Cardinality(DOMAIN m.zram.cells)
    + (IF m.cart.kind = "Mbc1"
       THEN Cardinality(DOMAIN m.cart.ram_banks[0].cells)
            + Cardinality(DOMAIN m.cart.ram_banks[1].cells)
            + Cardinality(DOMAIN m.cart.ram_banks[2].cells)
            + Cardinality(DOMAIN m.cart.ram_banks[3].cells)
       ELSE 0)

\* No free-standing call is followed: the decoder is driven as a whole.
NoCall == [fn |-> "none"]

Cartridges ==
    {CartridgeNone}
    \cup {c \in Mbc1Roms : ~c.has_ram => (~c.ram_enable /\ ~c.ram_mode)}

Init ==
    \E c \in Cartridges :
        LET m == GbMmuNew(BiosRomNew, c)
        IN  /\ bios = m.bios
            /\ cart = m.cart
            /\ vram = m.vram
            /\ wram = m.wram
            /\ oam = m.oam
            /\ io = m.io
            /\ zram = m.zram
            /\ panicked = FALSE
            /\ wroteFF50 = FALSE
            /\ call = NoCall

\* GbMmu.write(Addr::from(a), v). The write is evaluated once (r); a write
\* that would leave more than MaxDirty storage bytes changed is not explored.
Write(a, v) ==
    /\ ~panicked
    /\ \E r \in {GbMmuWrite(Mmu, AddrFrom(a), v)} :
           /\ Dirty(r.dev) <= MaxDirty
           /\ bios' = r.dev.bios
           /\ cart' = r.dev.cart
           /\ vram' = r.dev.vram
           /\ wram' = r.dev.wram
           /\ oam' = r.dev.oam
           /\ io' = r.dev.io
           /\ zram' = r.dev.zram
           /\ panicked' = ~r.ok
    /\ wroteFF50' = (wroteFF50 \/ (a = \hff50 /\ v % 2 = 1))
    /\ UNCHANGED call

WriteControl == \E a \in ControlAddrs, v \in ControlBytes : Write(a, v)

WriteStorage == \E a \in StorageAddrs, v \in DataBytes : Write(a, v)

\* GbMmu.read(Addr::from(a)): takes &self, so only a panic is a change.
Read ==
    \E a \in RawAddrs :
        /\ ~panicked
        /\ panicked' = ~GbMmuRead(Mmu, AddrFrom(a)).ok
        /\ UNCHANGED <<bios, cart, vram, wram, oam, io, zram, wroteFF50, call>>

Next == WriteControl \/ WriteStorage \/ Read

Spec == Init /\ [][Next]_vars

-----------------------------------------------------------------------------
(* The cartridge controller driven on its own, with the addresses relative *)
(* to the cartridge that the decoder hands it.                             *)

\* The Addr the decoder passes for cartridge-relative address rel: unshifted
\* for the ROM window, shifted by 0x2000 for the RAM window.
CartAddr(rel) ==
    IF rel >= \h8000 THEN OffsetBy(AddrFrom(rel + \h2000), \h2000) ELSE AddrFrom(rel)

\* Ends of the four register ranges and of the RAM window.
CartRegAddrs == {\h0000, \h1fff, \h2000, \h3fff, \h4000, \h5fff, \h6000, \h7fff}

CartRamAddrs == {\h8000, \h9fff}

InitMbc1 == Init /\ cart.kind = "Mbc1"

\* Mbc1Rom.write(addr, v), bounded like Write.
CartWrite(a, v) ==
    /\ ~panicked
    /\ \E r \in {Mbc1Write(cart, CartAddr(a), v)} :
           /\ Dirty([Mmu EXCEPT !.cart = r.dev]) <= MaxDirty
           /\ cart' = r.dev
           /\ panicked' = ~r.ok
    /\ UNCHANGED <<bios, vram, wram, oam, io, zram, wroteFF50, call>>

CartWriteReg == \E a \in CartRegAddrs, v \in ControlBytes : CartWrite(a, v)

CartWriteRam == \E a \in CartRamAddrs, v \in DataBytes : CartWrite(a, v)

\* Mbc1Rom.read(addr)
CartRead ==
    \E a \in CartRegAddrs \cup CartRamAddrs :
        /\ ~panicked
        /\ panicked' = ~Mbc1Read(cart, CartAddr(a)).ok
        /\ UNCHANGED <<bios, cart, vram, wram, oam, io, zram, wroteFF50, call>>

NextMbc1 == CartWriteReg \/ CartWriteRam \/ CartRead

SpecMbc1 == InitMbc1 /\ [][NextMbc1]_vars

-----------------------------------------------------------------------------
(* Properties.                                                             *)

\* Addresses strictly inside the ranges of the dispatch tables.
ProbeAddrs ==
    {\h0080, \h0123, \h2abc, \h4567, \h6fed, \h8123, \ha555, \hb000, \hc123,
     \hd555, \he123, \hfe50, \hfec0, \hff23, \hffc0}

\* C1: in every reachable state, for every cartridge variant, a read and a
\* write at any raw address (issued with relative == raw) complete without a
\* fatal assertion: no access so far has panicked, and none issued now would.
C1_Totality ==
    /\ panicked = FALSE
    /\ \A a \in RawAddrs \cup ProbeAddrs : GbMmuRead(Mmu, AddrFrom(a)).ok
    /\ \A a \in RawAddrs \cup ProbeAddrs : GbMmuWrite(Mmu, AddrFrom(a), \h5a).ok

\* The cartridge selects ROM bank 96 + rom_bank and has RAM enabled, the bios
\* is switched off and a byte of storage has been written.
C1_Witness ==
    /\ cart.kind = "Mbc1"
    /\ cart.ram_enable
    /\ cart.bank_set = 3
    /\ Mbc1RomBankIdx(cart) > 96
    /\ ~io.bios_enabled
    /\ Dirty(Mmu) > 0
    /\ ~panicked

\* First, middle and last address of the bios window.
BiosAddrs == {\h0000, \h0080, \h00ff}

\* C2: until a value with bit 0 set has been written to 0xFF50, a read in
\* 0x0000..0x00FF returns the byte of the bios image; from then on it returns
\* what the cartridge returns there: the byte of ROM bank 0 for an Mbc1
\* cartridge, 0 with no cartridge.
C2_BiosOverlay ==
    \A a \in BiosAddrs :
        IF ~wroteFF50
        THEN GbMmuRead(Mmu, AddrFrom(a)) = RdOk(BiosData(a))
        ELSE /\ GbMmuRead(Mmu, AddrFrom(a)) = CartridgeRead(cart, AddrFrom(a))
             /\ GbMmuRead(Mmu, AddrFrom(a))
                    = RdOk(IF cart.kind = "Mbc1" THEN RomData(0, a) ELSE 0)

\* The latch has been written, further register writes have followed, and
\* the window shows ROM bank 0, which differs from the bios there.
C2_Witness ==
    /\ wroteFF50
    /\ cart.kind = "Mbc1"
    /\ cart.rom_bank = 10
    /\ cart.ram_enable
    /\ GbMmuRead(Mmu, AddrFrom(\h00ff)) = RdOk(RomData(0, \h00ff))
    /\ RomData(0, \h00ff) # BiosData(\h00ff)

\* C3: bios_enabled is true at construction, becomes false exactly when a
\* value with bit 0 set is written to 0xFF50 (no other write and no read
\* changes it), and once false stays false.
C3_LatchOneWay ==
    /\ [](io.bios_enabled = ~wroteFF50)
    /\ [][~io.bios_enabled => ~io'.bios_enabled]_vars

\* The latch is off, and values with bit 0 clear written to 0xFF50 or other
\* writes afterwards (here: a storage byte and a register) have not set it.
C3_Witness ==
    /\ ~io.bios_enabled
    /\ wroteFF50
    /\ Dirty(Mmu) > 0
    /\ cart.kind = "Mbc1" /\ cart.bank_set = 2

\* Offsets into working RAM that both windows reach (the mirror ends at
\* 0xFDFF, offset 0x1DFF).
MirrorOffsets == {\h0000, \h0010, \h1dff}

\* C4: at equal offsets 0xC000+o and 0xE000+o always read the same byte, and
\* a byte written through either window is read back through the other.
C4_WramMirror ==
    \A o \in MirrorOffsets :
        /\ GbMmuRead(Mmu, AddrFrom(\hc000 + o)) = GbMmuRead(Mmu, AddrFrom(\he000 + o))
        /\ \A v \in DataBytes \cup {\hff} :
              /\ GbMmuRead(GbMmuWrite(Mmu, AddrFrom(\hc000 + o), v).dev,
                           AddrFrom(\he000 + o)) = RdOk(v)
              /\ GbMmuRead(GbMmuWrite(Mmu, AddrFrom(\he000 + o), v).dev,
                           AddrFrom(\hc000 + o)) = RdOk(v)

\* A byte has been written at offset 0x10 and is read through both windows.
C4_Witness ==
    /\ GbMmuRead(Mmu, AddrFrom(\hc010)) = RdOk(\h5a)
    /\ GbMmuRead(Mmu, AddrFrom(\he010)) = RdOk(\h5a)
    /\ ~panicked

\* C10: a write through the read-only wrapper changes no byte of the wrapped
\* device, and the bios store reads back its construction-time image in
\* every reachable state, whatever has been written to 0x0000..0x00FF.
C10_ReadOnly ==
    /\ \A b \in BiosAddrs : BiosRomRead(bios, AddrFrom(b)) = RdOk(BiosData(b))
    /\ \A a \in BiosAddrs, v \in DataBytes :
          /\ ReadOnlyWrite(bios, AddrFrom(a), v).ok
          /\ \A b \in BiosAddrs :
                ReadOnlyRead(ReadOnlyWrite(bios, AddrFrom(a), v).dev, AddrFrom(b))
                    = ReadOnlyRead(bios, AddrFrom(b))
          /\ io.bios_enabled => GbMmuWrite(Mmu, AddrFrom(a), v).dev.bios = bios

\* The bios is mapped, storage has been written, and a decoder write of a
\* byte that differs from the bios image at 0x0000 leaves the image in place.
C10_Witness ==
    /\ io.bios_enabled
    /\ Dirty(Mmu) > 0
    /\ BiosData(\h0000) # \h5a
    /\ GbMmuWrite(Mmu, AddrFrom(\h0000), \h5a).ok
    /\ GbMmuRead(GbMmuWrite(Mmu, AddrFrom(\h0000), \h5a).dev, AddrFrom(\h0000))
          = RdOk(BiosData(\h0000))

-----------------------------------------------------------------------------
(* Properties of the cartridge controller, under SpecMbc1.                 *)

\* Values that have bits set above every register's mask.
MaskBytes == ControlBytes \cup {\h40, \h5a, \ha0, \he0, \hfa, \hff}

\* C5: a write of v to 0x2000..0x3FFF sets rom_bank to max(v & 0x1F, 1), so a
\* value whose low 5 bits are 0 selects 1; rom_bank is in 1..31 in every
\* state, and the bank of the window 0x4000..0x7FFF is never 0, 32, 64 or 96.
C5_RomBankNeverZero ==
    /\ cart.rom_bank \in 1..31
    /\ Mbc1RomBankIdx(cart) \notin {0, 32, 64, 96}
    /\ \A a \in {\h2000, \h2abc, \h3fff}, v \in MaskBytes :
          /\ Mbc1Write(cart, CartAddr(a), v).dev.rom_bank
                = (IF v % 32 = 0 THEN 1 ELSE v % 32)
          /\ Mbc1RomBankIdx(Mbc1Write(cart, CartAddr(a), v).dev) \notin {0, 32, 64, 96}

\* The bank set is 3 in ROM mode and a bank select has left rom_bank at 1, as
\* a further write of 0x20 does.
C5_Witness ==
    /\ cart.rom_bank = 1
    /\ cart.bank_set = 3
    /\ ~cart.ram_mode
    /\ Mbc1RomBankIdx(cart) = 97
    /\ Mbc1Write(cart, CartAddr(\h2000), \h20).dev = cart

\* Offsets into a ROM bank.
RomOffsets == {\h0000, \h0010, \h3fff}

\* C6: a read at 0x4000+o returns byte o of ROM bank (h << 5) | rom_bank,
\* with h = 0 in RAM mode and h = bank_set otherwise; a read at o in
\* 0..0x3FFF returns byte o of bank 0 whatever the registers hold.
C6_EffectiveRomBank ==
    \A o \in RomOffsets :
        /\ Mbc1Read(cart, CartAddr(\h4000 + o))
              = RdOk(RomData((IF cart.ram_mode THEN 0 ELSE cart.bank_set) * 32
                             + cart.rom_bank, o))
        /\ Mbc1Read(cart, CartAddr(o)) = RdOk(RomData(0, o))

\* RAM mode with bank set 2: the window shows bank rom_bank, not 64 + rom_bank.
C6_Witness ==
    /\ cart.ram_mode
    /\ cart.bank_set = 2
    /\ cart.rom_bank = 10
    /\ Mbc1Read(cart, CartAddr(\h4000)) = RdOk(RomData(10, 0))
    /\ RomData(10, 0) # RomData(74, 0)

\* Offsets into a RAM bank.
RamOffsets == {\h0000, \h0010, \h1fff}

\* C7: with RAM present and enabled, a read and a write at 0x8000+o both
\* access byte o of RAM bank k, k = bank_set in RAM mode and 0 otherwise: the
\* read returns that byte, a written byte is read back there, and the write
\* changes no other byte of bank k, no other bank and no register.
C7_EffectiveRamBank ==
    (cart.has_ram /\ cart.ram_enable) =>
        LET k == IF cart.ram_mode THEN cart.bank_set ELSE 0
        IN  \A o \in RamOffsets :
              /\ Mbc1Read(cart, CartAddr(\h8000 + o))
                    = RdOk(ArrayGet(cart.ram_banks[k], o))
              /\ \A v \in DataBytes \cup {\hff} :
                    \E w \in {Mbc1Write(cart, CartAddr(\h8000 + o), v)} :
                        /\ w.ok
                        /\ Mbc1Read(w.dev, CartAddr(\h8000 + o)) = RdOk(v)
                        /\ w.dev.ram_banks[k] = ArraySet(cart.ram_banks[k], o, v)
                        /\ w.dev = [cart EXCEPT !.ram_banks[k] = w.dev.ram_banks[k]]

\* RAM mode, bank set 2, RAM enabled: the byte written went to bank 2.
C7_Witness ==
    /\ cart.has_ram /\ cart.ram_enable /\ cart.ram_mode
    /\ cart.bank_set = 2
    /\ ArrayGet(cart.ram_banks[2], \h1fff) = \h5a
    /\ Mbc1Read(cart, CartAddr(\h9fff)) = RdOk(\h5a)

\* C8: without RAM, ram_enable and ram_mode are false in every state, every
\* read of 0x8000..0x9FFF returns 0, and no write (0x0A to the enable range
\* and 1 to the mode range included) changes them or a RAM bank.
C8_NoRamGating ==
    (~cart.has_ram) =>
        /\ ~cart.ram_enable
        /\ ~cart.ram_mode
        /\ \A k \in DOMAIN cart.ram_banks : cart.ram_banks[k] = ZeroArray(\h2000)
        /\ \A a \in {\h8000, \h8010, \h9fff} :
              /\ Mbc1Read(cart, CartAddr(a)) = RdOk(0)
              /\ \A v \in DataBytes : Mbc1Write(cart, CartAddr(a), v) = WrOk(cart)
        /\ \A a \in {\h0000, \h1fff}, v \in MaskBytes :
              Mbc1Write(cart, CartAddr(a), v) = WrOk(cart)
        /\ \A a \in {\h6000, \h7fff}, v \in MaskBytes :
              Mbc1Write(cart, CartAddr(a), v) = WrOk(cart)

\* A cartridge without RAM whose other registers have been written, where
\* the enabling values are written and a read of the RAM window follows.
C8_Witness ==
    /\ ~cart.has_ram
    /\ cart.rom_bank = 10
    /\ cart.bank_set = 3
    /\ Mbc1Write(cart, CartAddr(\h0000), \h0a).dev.ram_enable = FALSE
    /\ Mbc1Write(cart, CartAddr(\h6000), \h01).dev.ram_mode = FALSE
    /\ Mbc1Read(Mbc1Write(cart, CartAddr(\h0000), \h0a).dev, CartAddr(\h8000)) = RdOk(0)

\* C9: a write of v to 0x0000..0x1FFF sets ram_enable to
\* has_ram and (v & 0xF) == 0xA; while ram_enable is false every read of
\* 0x8000..0x9FFF returns 0 and every write there changes nothing.
C9_RamEnable ==
    /\ \A a \in {\h0000, \h1abc, \h1fff}, v \in MaskBytes :
          Mbc1Write(cart, CartAddr(a), v)
              = WrOk([cart EXCEPT !.ram_enable = (cart.has_ram /\ v % 16 = 10)])
    /\ ~cart.ram_enable =>
          \A a \in {\h8000, \h8010, \h9fff} :
              /\ Mbc1Read(cart, CartAddr(a)) = RdOk(0)
              /\ \A v \in DataBytes : Mbc1Write(cart, CartAddr(a), v) = WrOk(cart)

\* RAM was enabled, a byte was written to the selected bank, and RAM has been
\* disabled again: the byte is still in the bank and the read returns 0.
C9_Witness ==
    /\ cart.has_ram
    /\ ~cart.ram_enable
    /\ ArrayGet(cart.ram_banks[Mbc1RamBankIdx(cart)], 0) = \h5a
    /\ Mbc1Read(cart, CartAddr(\h8000)) = RdOk(0)

-----------------------------------------------------------------------------
(* Properties of the decoder's cartridge and storage windows (Spec).       *)

\* C11: with an Mbc1 cartridge whose RAM is present and enabled, a decoder
\* write at raw 0xA000 + o stores into byte o of the effective RAM bank and a
\* decoder read there returns byte o of that bank, without failure; reads and
\* writes at raw 0x8000..0x9FFF reach video RAM and leave the cartridge alone.
C11_CartRamWindow ==
    /\ (cart.kind = "Mbc1" /\ cart.has_ram /\ cart.ram_enable) =>
          LET k == IF cart.ram_mode THEN cart.bank_set ELSE 0
          IN  \A o \in RamOffsets :
                  /\ GbMmuRead(Mmu, AddrFrom(\ha000 + o))
                         = RdOk(ArrayGet(cart.ram_banks[k], o))
                  /\ \A v \in DataBytes :
                         GbMmuWrite(Mmu, AddrFrom(\ha000 + o), v)
                             = WrOk([Mmu EXCEPT !.cart.ram_banks[k] =
                                         ArraySet(cart.ram_banks[k], o, v)])
    /\ \A o \in RamOffsets :
          /\ GbMmuRead(Mmu, AddrFrom(\h8000 + o)) = RdOk(ArrayGet(vram, o))
          /\ \A v \in DataBytes :
                 GbMmuWrite(Mmu, AddrFrom(\h8000 + o), v)
                     = WrOk([Mmu EXCEPT !.vram = ArraySet(vram, o, v)])

\* A byte was stored in RAM bank 2 through the decoder (RAM mode, bank_set 2)
\* and the decoder reads it back at 0xA000, while video RAM reads 0 at 0x8000.
C11_Witness ==
    /\ cart.kind = "Mbc1"
    /\ cart.has_ram /\ cart.ram_enable /\ cart.ram_mode
    /\ cart.bank_set = 2
    /\ ArrayGet(cart.ram_banks[2], 0) = \h5a
    /\ GbMmuRead(Mmu, AddrFrom(\ha000)) = RdOk(\h5a)
    /\ GbMmuRead(Mmu, AddrFrom(\h8000)) = RdOk(0)

\* Raw addresses the decoder routes to the cartridge: both ends and the inside
\* of the bios window, of the ROM window and of the cartridge RAM window.
CartRoutedAddrs ==
    {\h0000, \h0080, \h00ff, \h0100, \h1fff, \h2000, \h3fff, \h4000, \h5fff,
     \h6000, \h7fff, \ha000, \ha555, \hbfff}

\* C12: with no cartridge, every read the decoder routes to the cartridge
\* (0x0100..0x7FFF always, 0x0000..0x00FF once the bios is disabled,
\* 0xA000..0xBFFF) returns 0, and every write routed to the cartridge changes
\* no state and does not fail.
C12_NoCartridge ==
    cart.kind = "None" =>
        \A a \in CartRoutedAddrs :
            (a > \hff \/ ~io.bios_enabled) =>
                /\ GbMmuRead(Mmu, AddrFrom(a)) = RdOk(0)
                /\ \A v \in {\h0a, \h5a} : GbMmuWrite(Mmu, AddrFrom(a), v) = WrOk(Mmu)

\* No cartridge, the bios has been disabled and a storage byte was written;
\* address 0, where the bios held 0xFF, now reads 0 from the empty slot.
C12_Witness ==
    /\ cart.kind = "None"
    /\ ~io.bios_enabled
    /\ Dirty(Mmu) > 0
    /\ BiosRomRead(bios, AddrFrom(0)) = RdOk(\hff)
    /\ GbMmuRead(Mmu, AddrFrom(0)) = RdOk(0)

-----------------------------------------------------------------------------
(* BiosRom::try_from driven on its own: a caller holds a slice, converts   *)
(* it, and on success installs the BiosRom in a decoder and reads it.      *)

\* Lengths of the slices tried: empty, one byte, one short, exact, one long,
\* twice the size.
SliceLens == {0, 1, \hff, \h100, \h101, \h200}

SliceSeeds == {1, 2, 3, 5, 7, 11, 13, 17}

\* The slice of length n with contents of seed s (zero bytes included).
SliceData(n, s) == [i \in 0..(n - 1) |-> (s * (i + 1) + (i \div 16)) % 256]

\* Indices read back from a converted BiosRom.
BiosReadIdx == {\h00, \h01, \h80, \hff}

NoRead == [idx |-> 0, res |-> RdPanic, done |-> FALSE]

InitBios ==
    /\ \E n \in SliceLens, s \in SliceSeeds :
           call = [fn |-> "try_from", data |-> SliceData(n, s),
                   res |-> [kind |-> "Pending"], out |-> NoRead]
    /\ LET m == GbMmuNew(BiosRomNew, CartridgeNone)
       IN  /\ bios = m.bios
           /\ cart = m.cart
           /\ vram = m.vram
           /\ wram = m.wram
           /\ oam = m.oam
           /\ io = m.io
           /\ zram = m.zram
    /\ panicked = FALSE
    /\ wroteFF50 = FALSE

\* The caller takes the result r of the conversion; Ok(rom) goes into the
\* decoder (GbMmu::new(rom, cart)), a panic ends the program.
TakeResult(r) ==
    /\ ~panicked
    /\ call.res.kind = "Pending"
    /\ call' = [call EXCEPT !.res = r]
    /\ bios' = IF r.kind = "Ok" THEN r.rom ELSE bios
    /\ panicked' = (r.kind = "Panic")
    /\ UNCHANGED <<cart, vram, wram, oam, io, zram, wroteFF50>>

TryFrom == \E r \in {BiosRomTryFrom(call.data)} : TakeResult(r)

TryFromSlice == \E r \in {BiosRomTryFromSlice(call.data)} : TakeResult(r)

\* BiosRom.read(Addr::from(i)) on the converted rom.
ReadBios ==
    \E i \in BiosReadIdx :
        /\ ~panicked
        /\ call.res.kind = "Ok"
        /\ call' = [call EXCEPT !.out = [idx |-> i, res |-> BiosRomRead(bios, AddrFrom(i)),
                                         done |-> TRUE]]
        /\ UNCHANGED <<bios, cart, vram, wram, oam, io, zram, panicked, wroteFF50>>

NextBios == TryFrom \/ TryFromSlice \/ ReadBios

SpecBios == InitBios /\ [][NextBios]_vars

-----------------------------------------------------------------------------
(* Addr driven on its own: an Addr is built from a raw address and then    *)
(* re-offset any number of times, as a chain of nested devices does.       *)

\* Raw addresses an Addr is built from, and the shifts applied: the window
\* bases of the decoder and of the cartridge, and small values.
AddrRaws == {\h0000, \h0001, \h00ff, \h2000, \h8000, \ha000, \hc000, \hffff}

AddrShifts == {\h0000, \h00ff, \h2000, \h6000, \h8000, \hc000, \hff80}

NoOffset == [val |-> 0, done |-> FALSE]

\* call.addr is the Addr; raw0, sum and over are history: the raw address it
\* was built from, the sum of the shifts applied, and whether a shift larger
\* than the relative address was asked for. call.off is the last offset().
InitAddr ==
    /\ \E raw \in AddrRaws :
           call = [fn |-> "addr", addr |-> AddrFrom(raw), raw0 |-> raw, sum |-> 0,
                   over |-> FALSE, off |-> NoOffset]
    /\ LET m == GbMmuNew(BiosRomNew, CartridgeNone)
       IN  /\ bios = m.bios
           /\ cart = m.cart
           /\ vram = m.vram
           /\ wram = m.wram
           /\ oam = m.oam
           /\ io = m.io
           /\ zram = m.zram
    /\ panicked = FALSE
    /\ wroteFF50 = FALSE

\* addr = addr.offset_by(shift): the assertion fails or the new Addr is taken.
AddrOffsetBy ==
    \E shift \in AddrShifts :
        /\ ~panicked
        /\ IF OffsetOk(call.addr, shift)
           THEN /\ call' = [call EXCEPT !.addr = OffsetBy(call.addr, shift),
                                        !.sum = @ + shift,
                                        !.off = NoOffset]
                /\ UNCHANGED panicked
           ELSE /\ call' = [call EXCEPT !.over = TRUE]
                /\ panicked' = TRUE
        /\ UNCHANGED <<bios, cart, vram, wram, oam, io, zram, wroteFF50>>

\* addr.offset()
AddrGetOffset ==
    /\ ~panicked
    /\ call' = [call EXCEPT !.off = [val |-> AddrOffset(call.addr), done |-> TRUE]]
    /\ UNCHANGED <<bios, cart, vram, wram, oam, io, zram, panicked, wroteFF50>>

NextAddr == AddrOffsetBy \/ AddrGetOffset

SpecAddr == InitAddr /\ [][NextAddr]_vars

\* C14: an Addr built from raw has relative = raw; offset_by(shift) keeps raw
\* and subtracts shift from relative when shift <= relative and fails fatally
\* when shift > relative; so after any chain of offset_by calls
\* relative <= raw, and offset() = raw - relative is the sum of the shifts
\* applied and does not underflow.
C14_AddrChain ==
    /\ call.addr.raw = call.raw0
    /\ call.sum = 0 => call.addr.relative = call.addr.raw
    /\ call.addr.relative \in 0..call.addr.raw
    /\ call.addr.relative = call.raw0 - call.sum
    /\ AddrOffset(call.addr) = call.sum
    /\ AddrOffset(call.addr) \in 0..65535
    /\ call.off.done => call.off.val = call.sum
    /\ panicked = call.over
    /\ \A shift \in AddrShifts :
           IF shift <= call.addr.relative
           THEN /\ OffsetOk(call.addr, shift)
                /\ OffsetBy(call.addr, shift)
                       = [raw |-> call.addr.raw, relative |-> call.addr.relative - shift]
           ELSE ~OffsetOk(call.addr, shift)

\* The Addr built from 0xA000 has been shifted by 0x2000 and by 0x8000 (the
\* decoder's and the cartridge's re-offsets): relative 0, offset 0xA000.
C14_Witness ==
    /\ call.fn = "addr"
    /\ call.addr = [raw |-> \ha000, relative |-> 0]
    /\ call.sum = \ha000
    /\ call.off = [val |-> \ha000, done |-> TRUE]
    /\ ~panicked

-----------------------------------------------------------------------------
(* The devices called directly, as any holder of a MemDevice may call      *)
(* them, with Addrs whose relative address may lie outside the device.     *)

\* The devices: the decoder and its seven fields, and two NullRom<N>.
Devices == {"mmu", "bios", "cart", "vram", "wram", "oam", "io", "zram", "null1", "null8000"}

NullSize(d) == IF d = "null1" THEN 1 ELSE \h8000

\* device.read(addr) for device d of decoder m.
DevRead(m, d, addr) ==
    CASE d = "mmu"  -> GbMmuRead(m, addr)
      [] d = "bios" -> BiosRomRead(m.bios, addr)
      [] d = "cart" -> CartridgeRead(m.cart, addr)
      [] d = "io"   -> MemMappedIoRead(m.io, addr)
      [] d \in {"vram", "wram", "oam", "zram"} -> ArrayRead(m[d], addr)
      [] d \in {"null1", "null8000"} -> NullRomRead(NullSize(d), addr)

\* device.write(addr, value) for device d of decoder m: the decoder after it.
DevWrite(m, d, addr, value) ==
    CASE d = "mmu"  -> GbMmuWrite(m, addr, value)
      [] d = "bios" -> WrInto(m, "bios", BiosRomWrite(m.bios, addr, value))
      [] d = "cart" -> WrInto(m, "cart", CartridgeWrite(m.cart, addr, value))
      [] d = "io"   -> WrInto(m, "io", MemMappedIoWrite(m.io, addr, value))
      [] d \in {"vram", "wram", "oam", "zram"} -> WrInto(m, d, ArrayWrite(m[d], addr, value))
      [] d \in {"null1", "null8000"} ->
             IF NullRomWriteOk(NullSize(d), addr) THEN WrOk(m) ELSE WrPanic(m)

\* Number of relative addresses device d of decoder m covers.
DevSize(m, d) ==
    CASE d = "mmu"  -> \h10000
      [] d = "bios" -> \h100
      [] d = "cart" -> IF m.cart.kind = "None" THEN \h10000 ELSE \ha000
      [] d = "io"   -> \h80
      [] d \in {"vram", "wram"} -> \h2000
      [] d = "oam"  -> 160
      [] d = "zram" -> 127
      [] d \in {"null1", "null8000"} -> NullSize(d)

\* Relative addresses tried on device d: its first and last address, the two
\* addresses after the last, the largest u16, the latch and the cartridge's
\* window borders.
DevRels(m, d) ==
    ({0, DevSize(m, d) - 1, DevSize(m, d), DevSize(m, d) + 1, \hffff}
        \cup (IF d = "io" THEN {\h50} ELSE {})
        \cup (IF d \in {"cart", "mmu"} THEN {\h7fff, \h8000} ELSE {}))
    \cap (0..\hffff)

\* The Addrs with relative address rel: never offset, and offset by 1.
DevAddrs(rel) ==
    {AddrFrom(rel)} \cup (IF rel < \hffff THEN {OffsetBy(AddrFrom(rel + 1), 1)} ELSE {})

DevBytes == {\h01, \h5a}

\* The access is one the device must refuse: outside its size, or, for the
\* decoder, with an Addr that has been offset.
OutOfRange(m, d, addr) ==
    IF d = "mmu" THEN addr.relative # addr.raw ELSE addr.relative >= DevSize(m, d)

InitDev ==
    /\ \E c \in Cartridges :
           LET m == GbMmuNew(BiosRomNew, c)
           IN  /\ bios = m.bios
               /\ cart = m.cart
               /\ vram = m.vram
               /\ wram = m.wram
               /\ oam = m.oam
               /\ io = m.io
               /\ zram = m.zram
    /\ panicked = FALSE
    /\ wroteFF50 = FALSE
    /\ call = [fn |-> "device", over |-> FALSE]

DevWriteCall ==
    \E d \in Devices :
        \E rel \in DevRels(Mmu, d), v \in DevBytes :
            \E addr \in DevAddrs(rel) :
                /\ ~panicked
                /\ \E r \in {DevWrite(Mmu, d, addr, v)} :
                       /\ Dirty(r.dev) <= MaxDirty
                       /\ bios' = r.dev.bios
                       /\ cart' = r.dev.cart
                       /\ vram' = r.dev.vram
                       /\ wram' = r.dev.wram
                       /\ oam' = r.dev.oam
                       /\ io' = r.dev.io
                       /\ zram' = r.dev.zram
                       /\ panicked' = ~r.ok
                /\ call' = [call EXCEPT !.over = OutOfRange(Mmu, d, addr)]
                /\ wroteFF50' = (wroteFF50 \/ ~io'.bios_enabled)

DevReadCall ==
    \E d \in Devices :
        \E rel \in DevRels(Mmu, d) :
            \E addr \in DevAddrs(rel) :
                /\ ~panicked
                /\ panicked' = ~DevRead(Mmu, d, addr).ok
                /\ call' = [call EXCEPT !.over = OutOfRange(Mmu, d, addr)]
                /\ UNCHANGED <<bios, cart, vram, wram, oam, io, zram, wroteFF50>>

NextDev == DevWriteCall \/ DevReadCall

SpecDev == InitDev /\ [][NextDev]_vars

\* C15: an out-of-range access is fatal on every device, for reads and for
\* writes: NullRom<N> and [u8; N] at relative >= N, Mbc1Rom at relative >
\* 0x9FFF, MemMappedIo at relative > 0x7F; a ReadOnly's write fails exactly
\* when the wrapped device's read fails; the decoder's read and write fail
\* for an Addr whose relative differs from its raw; and the failing access
\* changes no device state.
C15_OutOfRangeFatal ==
    /\ [](/\ panicked = call.over
          /\ \A d \in Devices :
                 \A rel \in DevRels(Mmu, d) :
                     \A addr \in DevAddrs(rel) :
                         /\ DevRead(Mmu, d, addr).ok = ~OutOfRange(Mmu, d, addr)
                         /\ \A v \in DevBytes :
                                \E w \in {DevWrite(Mmu, d, addr, v)} :
                                    /\ w.ok = ~OutOfRange(Mmu, d, addr)
                                    /\ ~w.ok => w.dev = Mmu
                                    /\ d = "bios" =>
                                           w.ok = ArrayRead(bios, addr).ok)
    /\ [][panicked' => UNCHANGED <<bios, cart, vram, wram, oam, io, zram>>]_vars

\* Bytes were stored and the bios latch was cleared through direct device
\* calls, and then an access outside a device's range ended the program.
C15_Witness ==
    /\ call.fn = "device"
    /\ call.over
    /\ panicked
    /\ Dirty(Mmu) > 0
    /\ ~io.bios_enabled

-----------------------------------------------------------------------------
(* More properties of the decoder (Spec).                                  *)

\* Values written to the bios window: the RAM-enabling value among them.
OverlayBytes == {\h00, \h0a, \h2a}

\* C16: while bios_enabled, a decoder write to 0x0000..0x00FF goes to the
\* read-only bios and leaves every cartridge register unchanged (ram_enable
\* for value 0x0A in particular); once bios_enabled is false the same write
\* reaches the cartridge and updates ram_enable. A write to 0x0100..0x7FFF
\* reaches the cartridge whatever the latch.
C16_BiosOverlayWrites ==
    /\ \A a \in BiosAddrs, v \in OverlayBytes :
          \E w \in {GbMmuWrite(Mmu, AddrFrom(a), v)} :
              IF io.bios_enabled
              THEN w = WrOk(Mmu)
              ELSE /\ w = WrInto(Mmu, "cart", CartridgeWrite(cart, AddrFrom(a), v))
                   /\ cart.kind = "Mbc1" =>
                          w.dev.cart = [cart EXCEPT !.ram_enable =
                                            (cart.has_ram /\ v % 16 = 10)]
    /\ \A a \in {\h0100, \h1fff, \h2000, \h7fff}, v \in OverlayBytes :
          GbMmuWrite(Mmu, AddrFrom(a), v)
              = WrInto(Mmu, "cart", CartridgeWrite(cart, AddrFrom(a), v))

\* The bios is still mapped and cartridge registers have been written through
\* 0x2000 and 0x4000: writing 0x0A to address 0 leaves RAM disabled, and the
\* same write enables RAM once the latch has been cleared.
C16_Witness ==
    /\ io.bios_enabled
    /\ cart.kind = "Mbc1"
    /\ cart.has_ram /\ ~cart.ram_enable
    /\ cart.rom_bank = 10 /\ cart.bank_set = 3
    /\ GbMmuWrite(Mmu, AddrFrom(0), \h0a) = WrOk(Mmu)
    /\ GbMmuWrite(GbMmuWrite(Mmu, AddrFrom(\hff50), 1).dev, AddrFrom(0), \h0a).dev.cart.ram_enable

-----------------------------------------------------------------------------
(* More properties of the cartridge controller (SpecMbc1).                 *)

\* The register a write to ROM-range address a sets.
RegisterAt(a) ==
    CASE a \in \h0000..\h1fff -> "ram_enable"
      [] a \in \h2000..\h3fff -> "rom_bank"
      [] a \in \h4000..\h5fff -> "bank_set"
      [] a \in \h6000..\h7fff -> "ram_mode"

\* Ends and inside of the four register ranges.
RegProbeAddrs == CartRegAddrs \cup {\h1abc, \h2abc, \h4567, \h6fed}

\* ROM banks looked at: the fixed bank, the smallest and largest bank of each
\* bank set reachable, and the last bank.
RomBankProbes == {0, 1, 2, 10, 31, 33, 42, 63, 65, 74, 95, 97, 106, 127}

\* C17: a write to relative 0x0000..0x7FFF changes at most the one register
\* of its range and no byte of any ROM or RAM bank nor any other register;
\* after any sequence of writes every ROM bank holds the contents it was
\* constructed with.
C17_RomImmutable ==
    /\ \A a \in RegProbeAddrs, v \in MaskBytes :
          \E w \in {Mbc1Write(cart, CartAddr(a), v)} :
              /\ w.ok
              /\ w.dev = [cart EXCEPT ![RegisterAt(a)] = w.dev[RegisterAt(a)]]
              /\ w.dev.rom_banks = cart.rom_banks
              /\ w.dev.ram_banks = cart.ram_banks
    /\ DOMAIN cart.rom_banks = {}
    /\ \A b \in RomBankProbes, o \in RomOffsets :
          ArrayGet(RomBank(cart, b), o) = RomData(b, o)

\* 0x0A or 0x2A has been written into 0x2000..0x3FFF (rom_bank is 10) and a
\* byte into cartridge RAM; the fixed bank still reads the image's bytes at
\* 0x2000 and 0x3FFF.
C17_Witness ==
    /\ cart.rom_bank = 10
    /\ cart.bank_set = 2
    /\ Dirty(Mmu) > 0
    /\ Mbc1Read(cart, CartAddr(\h2000)) = RdOk(RomData(0, \h2000))
    /\ Mbc1Read(cart, CartAddr(\h3fff)) = RdOk(RomData(0, \h3fff))
    /\ RomData(0, \h3fff) \notin {\h0a, \h2a}

\* The cartridge after Mbc1Rom.write(a, v).
AfterWrite(c, a, v) == Mbc1Write(c, CartAddr(a), v).dev

\* One address of each register range, and values to write there in two orders.
OrderAddrs == {\h0000, \h2000, \h4000, \h6000}

OrderBytes == {\h00, \h01, \h03, \h2a}

\* C18: the effective banks are computed at access time. A write to
\* 0x6000..0x7FFF leaves bank_set and rom_bank unchanged and a write to
\* 0x4000..0x5FFF leaves ram_mode unchanged; so with has_ram, bank_set = b and
\* rom_bank = r, setting ram_mode to false, true, false makes reads of the
\* switchable window use ROM bank (b << 5) | r, then r, then (b << 5) | r, and
\* RAM accesses use bank 0, then b, then 0. The banks used depend only on the
\* last value written to each register, not on the order of the writes.
C18_BanksAtAccessTime ==
    /\ \A v \in ControlBytes :
          /\ AfterWrite(cart, \h6000, v).bank_set = cart.bank_set
          /\ AfterWrite(cart, \h6000, v).rom_bank = cart.rom_bank
          /\ AfterWrite(cart, \h4000, v).ram_mode = cart.ram_mode
    /\ cart.has_ram =>
          LET b  == cart.bank_set
              r  == cart.rom_bank
              c0 == AfterWrite(cart, \h6000, \h00)
              c1 == AfterWrite(c0, \h7fff, \h01)
              c2 == AfterWrite(c1, \h6000, \h02)
          IN  /\ ~c0.ram_mode /\ c1.ram_mode /\ ~c2.ram_mode
              /\ c2 = c0
              /\ \A o \in RomOffsets :
                     /\ Mbc1Read(c0, CartAddr(\h4000 + o)) = RdOk(RomData(32 * b + r, o))
                     /\ Mbc1Read(c1, CartAddr(\h4000 + o)) = RdOk(RomData(r, o))
                     /\ Mbc1Read(c2, CartAddr(\h4000 + o)) = RdOk(RomData(32 * b + r, o))
              /\ cart.ram_enable =>
                     \A o \in RamOffsets :
                         /\ Mbc1Read(c0, CartAddr(\h8000 + o))
                                = RdOk(ArrayGet(cart.ram_banks[0], o))
                         /\ Mbc1Read(c1, CartAddr(\h8000 + o))
                                = RdOk(ArrayGet(cart.ram_banks[b], o))
                         /\ Mbc1Read(c2, CartAddr(\h8000 + o))
                                = RdOk(ArrayGet(cart.ram_banks[0], o))
                         /\ AfterWrite(c0, \h8000 + o, \h5a)
                                = [c0 EXCEPT !.ram_banks[0] = ArraySet(@, o, \h5a)]
                         /\ AfterWrite(c1, \h8000 + o, \h5a)
                                = [c1 EXCEPT !.ram_banks[b] = ArraySet(@, o, \h5a)]
    /\ \A a1 \in OrderAddrs, a2 \in OrderAddrs :
          a1 < a2 =>
              \A v1 \in OrderBytes, v2 \in OrderBytes :
                  AfterWrite(AfterWrite(cart, a1, v1), a2, v2)
                      = AfterWrite(AfterWrite(cart, a2, v2), a1, v1)

\* A byte was stored in RAM bank 2 in RAM mode and the mode was switched back
\* to ROM mode with bank_set 2 and rom_bank 10: the window reads ROM bank 74
\* and RAM bank 0 now, and would read ROM bank 10 and the stored byte after
\* one more write of 1 to the mode register.
C18_Witness ==
    /\ cart.has_ram /\ cart.ram_enable /\ ~cart.ram_mode
    /\ cart.bank_set = 2 /\ cart.rom_bank = 10
    /\ ArrayGet(cart.ram_banks[2], 0) = \h5a
    /\ Mbc1Read(cart, CartAddr(\h4000)) = RdOk(RomData(74, 0))
    /\ Mbc1Read(cart, CartAddr(\h8000)) = RdOk(0)
    /\ Mbc1Read(AfterWrite(cart, \h6000, 1), CartAddr(\h4000)) = RdOk(RomData(10, 0))
    /\ Mbc1Read(AfterWrite(cart, \h6000, 1), CartAddr(\h8000)) = RdOk(\h5a)

-----------------------------------------------------------------------------
(* The decoder's plain storage driven on its own: the CPU stores and loads *)
(* data and clears the bios latch, and leaves the cartridge registers as   *)
(* they are.                                                               *)

\* No cartridge, and the Mbc1 cartridges with bank_set 2.
StoreCartridges == {c \in Cartridges : c.kind = "Mbc1" => c.bank_set = 2}

UnmappedAddrs == {\hfea0, \hfeff, \hffff}

InitStore == Init /\ cart \in StoreCartridges

WriteLatch == \E v \in {\h00, \h01} : Write(\hff50, v)

WriteUnmapped == \E a \in UnmappedAddrs, v \in DataBytes : Write(a, v)

NextStore == WriteStorage \/ WriteLatch \/ WriteUnmapped \/ Read

SpecStore == InitStore /\ [][NextStore]_vars

\* Raw addresses of video RAM, working RAM and its mirror, the sprite table
\* and high RAM.
PlainAddrs == StorageAddrs \ {\ha000}

\* The device and the byte of it that plain storage address a names.
PlainCell(a) ==
    CASE a \in \h8000..\h9fff -> [dev |-> "vram", idx |-> a - \h8000]
      [] a \in \hc000..\hdfff -> [dev |-> "wram", idx |-> a - \hc000]
      [] a \in \he000..\hfdff -> [dev |-> "wram", idx |-> a - \he000]
      [] a \in \hfe00..\hfe9f -> [dev |-> "oam", idx |-> a - \hfe00]
      [] a \in \hff80..\hfffe -> [dev |-> "zram", idx |-> a - \hff80]
      [] OTHER -> [dev |-> "none", idx |-> a]

C20_RamSurvives ==
    /\ [](/\ \A a \in RegProbeAddrs, v \in ControlBytes :
                 AfterWrite(cart, a, v).ram_banks = cart.ram_banks
          /\ (cart.has_ram /\ cart.ram_enable) =>
                 LET k   == IF cart.ram_mode THEN cart.bank_set ELSE 0
                     off == AfterWrite(cart, \h0000, \h00)
                     on  == AfterWrite(off, \h1fff, \h0a)
                 IN  /\ ~off.ram_enable
                     /\ on = cart
                     /\ \A o \in RamOffsets :
                            /\ Mbc1Read(off, CartAddr(\h8000 + o)) = RdOk(0)
                            /\ Mbc1Write(off, CartAddr(\h8000 + o), \h5a) = WrOk(off)
                            /\ Mbc1Read(on, CartAddr(\h8000 + o))
                                   = RdOk(ArrayGet(cart.ram_banks[k], o))
                            /\ \A v \in DataBytes, j \in (0..3) \ {k} :
                                   AfterWrite(cart, \h8000 + o, v).ram_banks[j]
                                       = cart.ram_banks[j])
    /\ [][\A k \in 0..3 :
              cart'.ram_banks[k] # cart.ram_banks[k] =>
                  /\ cart.has_ram /\ cart.ram_enable
                  /\ k = (IF cart.ram_mode THEN cart.bank_set ELSE 0)]_vars

\* 0x5A was stored in RAM bank 2, then RAM was disabled and rom_bank was set
\* to 10: the window reads 0, and reads 0x5A after RAM is enabled again.
C20_Witness ==
    /\ cart.has_ram /\ ~cart.ram_enable /\ cart.ram_mode
    /\ cart.bank_set = 2 /\ cart.rom_bank = 10
    /\ ArrayGet(cart.ram_banks[2], 0) = \h5a
    /\ Mbc1Read(cart, CartAddr(\h8000)) = RdOk(0)
    /\ Mbc1Read(AfterWrite(cart, \h0000, \h0a), CartAddr(\h8000)) = RdOk(\h5a)

=============================================================================
